---- MODULE Spec2Model ----
(***************************************************************************)
(* Model of run.py: a Flask payroll application over one SQLite table      *)
(* "staff" and one export file.                                            *)
(*                                                                         *)
(* Text is a sequence of characters, so that strip() and float() are       *)
(* computed character by character.  A character is a string: itself for   *)
(* printable ASCII, the escapes "\t" "\n" "\f" "\r", and the name of its    *)
(* code point ("U+00A0") for the other whitespace characters and for the   *)
(* grave accent.                                                           *)
(*                                                                         *)
(* A float is a record [k, m, x]: k = "fin" for the decimal m * 10^x with  *)
(* m not divisible by 10 (zero is m = 0, x = 0, the sign of a zero is not  *)
(* kept), k = "inf" with m = 1 or -1 (the sign), k = "nan".  Finite        *)
(* arithmetic is exact on these decimals: the binary rounding of IEEE      *)
(* doubles is not modelled, their range and the non-finite values are.     *)
(* Where only the binary expansion decides (a mean exactly half way        *)
(* between two cents) both outcomes are taken.  TLC's integers are 32 bits *)
(* wide: a value of more than nine significant digits, or a sum whose      *)
(* terms differ by more than nine orders of magnitude, has no decimal here *)
(* and its evaluation stops with an overflow, it does not yield a value.   *)
(***************************************************************************)
EXTENDS Integers, Sequences, FiniteSets

VARIABLES store, seq, file, pc, df, alone, resp

vars == <<store, seq, file, pc, df, alone, resp>>

(***************************************************************************)
(* Bounds and program constants                                            *)
(***************************************************************************)
MaxStaff == 3

MaxStaffApp == 2

TaxRate == 10

PensionRate == 8

Threshold == 30000

HttpOk == 200

HttpFound == 302

HttpBadRequest == 400

HttpServerError == 500

ErrSalary == "Salary fields must be valid numbers."

FieldOrder == <<"name", "role", "basic", "housing", "transport", "feeding">>

Clients == {"c1", "c2"}

(***************************************************************************)
(* Text: str.strip()                                                       *)
(***************************************************************************)
\* the characters str.strip() removes: those str.isspace() holds of
StripSpace ==
  {" ", "\t", "\n", "\r", "\f", "U+000B", "U+001C", "U+001D", "U+001E",
   "U+001F", "U+0085", "U+00A0", "U+1680", "U+2000", "U+2001", "U+2002",
   "U+2003", "U+2004", "U+2005", "U+2006", "U+2007", "U+2008", "U+2009",
   "U+200A", "U+2028", "U+2029", "U+202F", "U+205F", "U+3000"}

\* the characters float() removes around a number: the same but the four
\* separators U+001C..U+001F, with which float() raises ValueError
FloatSpace == StripSpace \ {"U+001C", "U+001D", "U+001E", "U+001F"}

\* s without its longest prefix of characters of ws
LStrip(s, ws) ==
  LET K == {i \in 1..Len(s) : s[i] \notin ws}
  IN IF K = {} THEN <<>>
     ELSE SubSeq(s, CHOOSE i \in K : \A j \in K : i <= j, Len(s))

\* s without its longest suffix of characters of ws
RStrip(s, ws) ==
  LET K == {i \in 1..Len(s) : s[i] \notin ws}
  IN IF K = {} THEN <<>>
     ELSE SubSeq(s, 1, CHOOSE i \in K : \A j \in K : i >= j)

\* str.strip(): leading and trailing whitespace removed
Strip(s) == RStrip(LStrip(s, StripSpace), StripSpace)

(***************************************************************************)
(* Floats                                                                  *)
(***************************************************************************)
Fin(m, x) == [k |-> "fin", m |-> m, x |-> x]

Zero == Fin(0, 0)

PosInf == [k |-> "inf", m |-> 1, x |-> 0]

NegInf == [k |-> "inf", m |-> -1, x |-> 0]

NaN == [k |-> "nan", m |-> 0, x |-> 0]

Inf(sgn) == IF sgn < 0 THEN NegInf ELSE PosInf

Abs(n) == IF n < 0 THEN 0 - n ELSE n

Sgn(n) == IF n < 0 THEN -1 ELSE IF n > 0 THEN 1 ELSE 0

RECURSIVE Pow10(_)
\* 10^n, as far as the integer width goes
Pow10(n) == CASE n = 0 -> 1 [] n \in 1..9 -> 10 * Pow10(n - 1)

RECURSIVE NumDigits(_)
\* the number of decimal digits of n > 0
NumDigits(n) == IF n < 10 THEN 1 ELSE 1 + NumDigits(n \div 10)

\* the decimal m * 10^x (m not 0, not divisible by 10) is at or above the
\* value that rounds to infinity, 1.797693134862315807e308
Beyond(m, x) ==
  LET a    == Abs(m)
      nd   == NumDigits(a)
      lead == IF nd <= 9 THEN a * Pow10(9 - nd) ELSE a \div 10
  IN \/ nd + x > 309
     \/ /\ nd + x = 309
        /\ \/ lead > 179769313
           \/ lead = 179769313 /\ nd = 10 /\ a % 10 >= 5

RECURSIVE Dec(_, _)
\* the double of the decimal m * 10^x.  With at most ten digits in m, an
\* exponent from -306 to 298 is inside the range of the normal doubles; past
\* it the value is infinite from the overflow threshold on and zero under
\* 1e-324; between 1e-324 and the normal doubles (1e-307) a double is not a
\* short decimal and the CASE has no arm
Dec(m, x) ==
  CASE m = 0 -> Zero
    [] m # 0 /\ m % 10 = 0 -> Dec(m \div 10, x + 1)
    [] m % 10 # 0 /\ x \in -306..298 -> Fin(m, x)
    [] m % 10 # 0 /\ x > 298 -> IF Beyond(m, x) THEN Inf(m) ELSE Fin(m, x)
    [] m % 10 # 0 /\ x < -306 /\ NumDigits(Abs(m)) + x <= -324 -> Zero
    [] m % 10 # 0 /\ x < -306 /\ NumDigits(Abs(m)) + x >= -306 -> Fin(m, x)

\* the integer n with a.m * 10^a.x = n * 10^x0, for a zero or x0 <= a.x
Scaled(a, x0) == IF a.m = 0 THEN 0 ELSE a.m * Pow10(a.x - x0)

Min(i, j) == IF i <= j THEN i ELSE j

FAdd(a, b) ==
  IF a.k = "nan" \/ b.k = "nan" THEN NaN
  ELSE IF a.k = "inf" /\ b.k = "inf" THEN (IF a.m = b.m THEN a ELSE NaN)
  ELSE IF a.k = "inf" THEN a
  ELSE IF b.k = "inf" THEN b
  ELSE IF a.m = 0 THEN b
  ELSE IF b.m = 0 THEN a
  ELSE LET x0 == Min(a.x, b.x) IN Dec(Scaled(a, x0) + Scaled(b, x0), x0)

FNeg(a) == IF a.k = "nan" THEN NaN ELSE [k |-> a.k, m |-> 0 - a.m, x |-> a.x]

FSub(a, b) == FAdd(a, FNeg(b))

\* a * (pct / 100) for a positive percentage
FPercent(a, pct) == IF a.k = "fin" THEN Dec(a.m * pct, a.x - 2) ELSE a

\* a > b for finite a and b: by sign, then by order of magnitude, then by
\* the digits
FinGt(a, b) ==
  LET sa == Sgn(a.m)
      sb == Sgn(b.m)
      ta == NumDigits(Abs(a.m)) + a.x
      tb == NumDigits(Abs(b.m)) + b.x
      x0 == Min(a.x, b.x)
  IN IF a.x = b.x THEN a.m > b.m
     ELSE IF sa # sb THEN sa > sb
     ELSE IF sa = 0 THEN FALSE
     ELSE IF ta # tb THEN (sa = 1 /\ ta > tb) \/ (sa = -1 /\ ta < tb)
     ELSE Scaled(a, x0) > Scaled(b, x0)

\* a > b; every comparison with NaN is false
FGt(a, b) ==
  /\ a.k # "nan"
  /\ b.k # "nan"
  /\ \/ a.k = "fin" /\ b.k = "fin" /\ FinGt(a, b)
     \/ a.k = "inf" /\ a.m = 1 /\ ~(b.k = "inf" /\ b.m = 1)
     \/ b.k = "inf" /\ b.m = -1 /\ ~(a.k = "inf" /\ a.m = -1)

FGe(a, b) == a.k # "nan" /\ b.k # "nan" /\ (a = b \/ FGt(a, b))

(***************************************************************************)
(* Text: float()                                                           *)
(***************************************************************************)
Digits == {"0", "1", "2", "3", "4", "5", "6", "7", "8", "9"}

DigitVal(c) ==
  CASE c = "0" -> 0 [] c = "1" -> 1 [] c = "2" -> 2 [] c = "3" -> 3
    [] c = "4" -> 4 [] c = "5" -> 5 [] c = "6" -> 6 [] c = "7" -> 7
    [] c = "8" -> 8 [] c = "9" -> 9

\* the characters ParseFloat is defined on: printable ASCII and whitespace.
\* float() also reads the decimal digits of other scripts as digits; a text
\* holding a character outside this set is outside the model.
Alphabet ==
  StripSpace \cup Digits \cup
  {"a", "b", "c", "d", "e", "f", "g", "h", "i", "j", "k", "l", "m", "n", "o",
   "p", "q", "r", "s", "t", "u", "v", "w", "x", "y", "z",
   "A", "B", "C", "D", "E", "F", "G", "H", "I", "J", "K", "L", "M", "N", "O",
   "P", "Q", "R", "S", "T", "U", "V", "W", "X", "Y", "Z",
   "!", "\"", "#", "$", "%", "&", "'", "(", ")", "*", "+", ",", "-", ".", "/",
   ":", ";", "<", "=", ">", "?", "@", "[", "\\", "]", "^", "_", "U+0060", "{", "|",
   "}", "~"}

\* the letters of inf, infinity, nan and of the exponent mark, in lower case
Lower(c) ==
  CASE c = "I" -> "i" [] c = "N" -> "n" [] c = "F" -> "f" [] c = "T" -> "t"
    [] c = "Y" -> "y" [] c = "A" -> "a" [] c = "E" -> "e" [] OTHER -> c

RECURSIVE DigitsToInt(_)
\* the integer written by the digits s
DigitsToInt(s) ==
  IF s = <<>> THEN 0
  ELSE 10 * DigitsToInt(SubSeq(s, 1, Len(s) - 1)) + DigitVal(s[Len(s)])

\* the position of the first c of s, 0 when there is none
Find(s, c) ==
  LET K == {i \in 1..Len(s) : s[i] = c}
  IN IF K = {} THEN 0 ELSE CHOOSE i \in K : \A j \in K : i <= j

ParseError == [ok |-> FALSE, val |-> NaN]

Parsed(v) == [ok |-> TRUE, val |-> v]

\* the first nine significant digits, as a nine-digit integer
Lead(sig) ==
  DigitsToInt(SubSeq(sig, 1, Min(Len(sig), 9))) * Pow10(9 - Min(Len(sig), 9))

\* the double of sgn * sig * 10^x, sig being digits with no zero at either
\* end: beyond the range of a double it is an infinity, below it zero
Significant(sgn, sig, x) ==
  IF sig = <<>> THEN Zero
  ELSE IF Len(sig) + x > 309 THEN Inf(sgn)
  ELSE IF Len(sig) + x = 309 /\ Lead(sig) > 179769313 THEN Inf(sgn)
  ELSE IF Len(sig) + x <= -324 THEN Zero
  ELSE Dec(sgn * DigitsToInt(sig), x)

\* the same for digits nz that may end in zeros: each is a power of ten
Unpadded(sgn, nz, x) ==
  Significant(sgn, RStrip(nz, {"0"}), (Len(nz) - Len(RStrip(nz, {"0"}))) + x)

\* the number written by a digit string with at most one point and the
\* decimal exponent e: leading and trailing zeros carry no digits, so only
\* the significant digits count against the integer width
Decimal(sgn, mant, e) ==
  Unpadded(sgn, LStrip(SelectSeq(mant, LAMBDA c : c \in Digits), {"0"}),
           e - (IF Find(mant, ".") = 0 THEN 0 ELSE Len(mant) - Find(mant, ".")))

\* every "_" of t stands between two digits
OkSep(t) ==
  \A i \in 1..Len(t) :
    t[i] = "_" =>
      /\ i > 1 /\ t[i - 1] \in Digits
      /\ i < Len(t) /\ t[i + 1] \in Digits

\* digits with at most one point, and at least one digit
MantOk(mant) ==
  /\ \A i \in 1..Len(mant) : mant[i] \in Digits \cup {"."}
  /\ \E i \in 1..Len(mant) : mant[i] \in Digits
  /\ Cardinality({i \in 1..Len(mant) : mant[i] = "."}) <= 1

\* the digits of the exponent text expo, its sign left out
ExpDigits(expo) ==
  IF expo # <<>> /\ Head(expo) \in {"+", "-"} THEN Tail(expo) ELSE expo

\* an optional sign and at least one digit
ExpOk(expo) ==
  ExpDigits(expo) # <<>> /\ \A i \in 1..Len(ExpDigits(expo)) : ExpDigits(expo)[i] \in Digits

\* the value of the exponent digits eSig, which do not start with a zero
\* and are nine at most
ExpMagnitude(eSig) == DigitsToInt(eSig)

\* the exponent of expo has more than nine digits after its leading zeros
ExpHuge(expo) == Len(LStrip(ExpDigits(expo), {"0"})) > 9

\* the number with mantissa mant and an exponent of at least 10^9 in size:
\* zero when the mantissa has no digit but 0, else an infinity or zero by
\* the sign of the exponent; a mantissa of fewer than 999999000 characters
\* cannot bring the value back into the range of a double
FarOut(sgn, mant, expo) ==
  CASE \A i \in 1..Len(mant) : mant[i] \in {"0", "."} -> Zero
    [] (\E i \in 1..Len(mant) : mant[i] \notin {"0", "."}) /\ Len(mant) < 999999000 ->
         IF Head(expo) = "-" THEN Zero ELSE Inf(sgn)

\* the value of the exponent text expo, 0 for the empty text
ExpValue(expo) ==
  (IF expo # <<>> /\ Head(expo) = "-" THEN -1 ELSE 1)
    * ExpMagnitude(LStrip(ExpDigits(expo), {"0"}))

\* the number with mantissa mant and, when hasExp, exponent text expo
ParseNumber(sgn, mant, expo, hasExp) ==
  IF ~MantOk(mant) \/ (hasExp /\ ~ExpOk(expo)) THEN ParseError
  ELSE IF ExpHuge(expo) THEN Parsed(FarOut(sgn, mant, expo))
  ELSE Parsed(Decimal(sgn, mant, ExpValue(expo)))

\* body is split at its exponent mark, which stands at ePos (0: none)
ParseSplit(sgn, body, ePos) ==
  ParseNumber(sgn,
              IF ePos = 0 THEN body ELSE SubSeq(body, 1, ePos - 1),
              IF ePos = 0 THEN <<>> ELSE SubSeq(body, ePos + 1, Len(body)),
              ePos # 0)

\* low is body in lower case
ParseWord(sgn, body, low) ==
  IF low \in {<<"i", "n", "f">>, <<"i", "n", "f", "i", "n", "i", "t", "y">>}
  THEN Parsed(Inf(sgn))
  ELSE IF low = <<"n", "a", "n">> THEN Parsed(NaN)
  ELSE ParseSplit(sgn, body, Find(low, "e"))

ParseBody(sgn, body) ==
  ParseWord(sgn, body, [i \in 1..Len(body) |-> Lower(body[i])])

\* u is the text without its "_": an optional sign, then the body
ParseSigned(u) ==
  ParseBody(IF u # <<>> /\ Head(u) = "-" THEN -1 ELSE 1,
            IF u # <<>> /\ Head(u) \in {"+", "-"} THEN Tail(u) ELSE u)

\* t is the text without the whitespace around it
ParseTrimmed(t) ==
  IF ~OkSep(t) THEN ParseError
  ELSE ParseSigned(SelectSeq(t, LAMBDA c : c # "_"))

\* float(text): [ok |-> FALSE] stands for ValueError.  Whitespace around, an
\* optional sign, then inf, infinity or nan in any case, or digits with at
\* most one point and an optional exponent; "_" may stand between two digits.
ParseFloat(s) ==
  CASE \A i \in 1..Len(s) : s[i] \in Alphabet ->
    ParseTrimmed(RStrip(LStrip(s, FloatSpace), FloatSpace))

(***************************************************************************)
(* The amount texts of the submissions                                     *)
(***************************************************************************)
T0 == <<"0">>

T20000 == <<"2", "0", "0", "0", "0">>

T5000 == <<"5", "_", "0", "0", "0">>

T3000 == <<"3", "E", "3">>

T2000 == <<"2", "0", "0", "0", ".", "0", "0">>

\* 100.007, a value that is not a whole number of cents
T100p007 == <<"\t", "+", "1", "_", "0", "0", ".", "0", "0", "7", "\n">>

T0e0 == <<"0", "e", "0">>

T40000p1 == <<" ", "4", "0", "0", "0", "0", ".", "1", "0", " ">>

T100 == <<"1", "0", "0">>

TNeg5 == <<"-", "5">>

TAbc == <<"a", "b", "c">>

TInfinity == <<"I", "n", "f", "i", "n", "i", "t", "y">>

TInf == <<"i", "n", "f">>

TNegInf == <<"-", "I", "N", "F">>

TNan == <<"N", "a", "N">>

Texts ==
  {<<>>, T0, T20000, T5000, T3000, T2000, T100p007, T0e0, T40000p1, T100,
   TNeg5, TAbc, TInfinity, TInf, TNegInf, TNan}

\* ParseFloat on the texts of the submissions, worked out once
FloatOfText == [t \in Texts |-> ParseFloat(t)]

\* float(text) as the handlers call it
float(s) == IF s \in Texts THEN FloatOfText[s] ELSE ParseFloat(s)

(***************************************************************************)
(* Form submissions: a form is a function from the field names it holds to *)
(* text; a field outside its DOMAIN is missing from the request.           *)
(***************************************************************************)
MkForm(n, r, b, h, t, f) ==
  [x \in {"name", "role", "basic", "housing", "transport", "feeding"} |->
     CASE x = "name" -> n [] x = "role" -> r [] x = "basic" -> b
       [] x = "housing" -> h [] x = "transport" -> t [] x = "feeding" -> f]

Without(form, fld) == [x \in (DOMAIN form) \ {fld} |-> form[x]]

NoForm == [x \in {} |-> <<>>]

\* the worked example of the payroll formulas
FormExample == MkForm(<<"A">>, <<"D">>, T20000, T5000, T3000, T2000)

\* a name and a role inside whitespace, amounts below one cent
FormPadded ==
  MkForm(<<"\n", "B", " ">>, <<"U+00A0", "D", "\r">>, T100p007, T0e0, T0, T0)

\* net above the threshold, an amount with decimals and blanks
FormHigh == MkForm(<<"C">>, <<"M">>, T40000p1, T0, T0, T0)

\* a name of whitespace only
FormBlankName == MkForm(<<"\n", "U+001F">>, <<"D">>, T100, T0, T0, T0)

FormNegative == MkForm(<<"E">>, <<"D">>, TNeg5, T0, T0, T0)

FormAbc == MkForm(<<"G">>, <<"D">>, TAbc, T0, T0, T0)

FormEmptyAmount == MkForm(<<"G">>, <<"D">>, T100, <<>>, T0, T0)

FormNoFeeding == Without(FormExample, "feeding")

FormNoNameAbc == Without(FormAbc, "name")

FormAbcNoFeeding == Without(FormAbc, "feeding")

FormInf == MkForm(<<"H">>, <<"D">>, TInfinity, T0, T0, T0)

FormInfNegInf == MkForm(<<"I">>, <<"D">>, TInf, TNegInf, T0, T0)

FormNan == MkForm(<<"J">>, <<"D">>, T100, TNan, T0, T0)

\* the submissions of the index-route specification
Forms ==
  {FormExample, FormPadded, FormHigh, FormBlankName, FormNegative, FormAbc,
   FormEmptyAmount, FormNoFeeding, FormNoNameAbc, FormAbcNoFeeding, FormInf,
   FormInfNegInf, FormNan}

\* the submissions of the whole-application specification
FormsApp == {FormExample, FormHigh, FormAbc}

(***************************************************************************)
(* compute_payroll                                                         *)
(***************************************************************************)
\* ComputeLine with the pension taken from what is left after tax
ComputeLinePensionAfterTax(r) ==
  LET gross   == FAdd(FAdd(FAdd(r.basic, r.housing), r.transport), r.feeding)
      tax     == FPercent(gross, TaxRate)
      pension == FPercent(FSub(gross, tax), PensionRate)
  IN [id |-> r.id, name |-> r.name, role |-> r.role, basic |-> r.basic,
      housing |-> r.housing, transport |-> r.transport, feeding |-> r.feeding,
      gross |-> gross, tax |-> tax, pension |-> pension,
      net |-> FSub(gross, FAdd(tax, pension))]

\* the four derived columns of one row of the staff table
ComputeLine(r) ==
  LET gross   == FAdd(FAdd(FAdd(r.basic, r.housing), r.transport), r.feeding)
      tax     == FPercent(gross, TaxRate)
      pension == FPercent(gross, PensionRate)
  IN [id |-> r.id, name |-> r.name, role |-> r.role, basic |-> r.basic,
      housing |-> r.housing, transport |-> r.transport, feeding |-> r.feeding,
      gross |-> gross, tax |-> tax, pension |-> pension,
      net |-> FSub(gross, FAdd(tax, pension))]

\* DataFrame.sort_values("net", ascending=False): the default kind is
\* "quicksort", which is not stable, so every order of descending net is a
\* possible outcome; rows whose net is NaN go last, in their original order.
\* Orders(lines, S) is the set of orders the rows S of lines can come out in:
\* any row of greatest net first, then the others in the same way.
RECURSIVE Orders(_, _)
Orders(lines, S) ==
  IF S = {} THEN {<<>>}
  ELSE LET num == {i \in S : lines[i].net.k # "nan"}
           first == IF num = {}
                    THEN {CHOOSE i \in S : \A j \in S : i <= j}
                    ELSE {i \in num : \A j \in num : FGe(lines[i].net, lines[j].net)}
       IN UNION {{<<lines[i]>> \o r : r \in Orders(lines, S \ {i})} : i \in first}

SortValues(lines) == Orders(lines, 1..Len(lines))

\* the set of results compute_payroll can return on the table st
compute_payroll(st) ==
  IF st = <<>> THEN {<<>>}
  ELSE SortValues([i \in 1..Len(st) |-> ComputeLine(st[i])])

(***************************************************************************)
(* Summary statistics of the index page                                    *)
(***************************************************************************)
\* the integers num / den can round to (den > 0): the nearest one, and both
\* neighbours when num / den lies exactly half way, where the binary
\* expansion of the double decides
RoundOutcomes(num, den) ==
  LET q == num \div den
      r == num - q * den
  IN IF 2 * r < den THEN {q}
     ELSE IF 2 * r > den THEN {q + 1}
     ELSE {q, q + 1}

RECURSIVE LoopSum(_, _)
\* acc with the values of s added to it one by one, from the first on
LoopSum(acc, s) ==
  IF s = <<>> THEN acc ELSE LoopSum(FAdd(acc, Head(s)), Tail(s))

\* the sum of s[j], s[j + 8], s[j + 16], ... up to position n8, in that order
LaneSum(s, j, n8) ==
  LoopSum(s[j], [k \in 1..((n8 \div 8) - 1) |-> s[j + 8 * k]])

\* 8 to 128 values: eight running sums, one for each position modulo 8, are
\* added in pairs, and the values past the last full group of eight are
\* added to the result one by one
BlockSum(s) ==
  LET n8 == Len(s) - (Len(s) % 8)
      r(j) == LaneSum(s, j, n8)
  IN LoopSum(FAdd(FAdd(FAdd(r(1), r(2)), FAdd(r(3), r(4))),
                  FAdd(FAdd(r(5), r(6)), FAdd(r(7), r(8)))),
             SubSeq(s, n8 + 1, Len(s)))

RECURSIVE PairwiseSum(_)
\* the order in which numpy adds a float64 column: fewer than 8 values one
\* by one from the first, up to 128 in BlockSum, more in two halves, the
\* first of a length divisible by 8
PairwiseSum(s) ==
  IF Len(s) < 8 THEN LoopSum(Zero, s)
  ELSE IF Len(s) <= 128 THEN BlockSum(s)
  ELSE LET n2 == (Len(s) \div 2) - ((Len(s) \div 2) % 8)
       IN FAdd(PairwiseSum(SubSeq(s, 1, n2)), PairwiseSum(SubSeq(s, n2 + 1, Len(s))))

\* Series.sum() of the values s, none of them NaN: the order of the
\* additions decides the result when a partial sum overflows
FSum(s) == PairwiseSum(s)

\* Mean2 with the cents cut off instead of rounded
Mean2Truncated(t) ==
  LET gross == [i \in 1..Len(t) |-> t[i].gross]
      vals  == SelectSeq(gross, LAMBDA g : g.k # "nan")
      total == FSum([i \in 1..Len(t) |-> IF gross[i].k = "nan" THEN Zero ELSE gross[i]])
      n     == Len(vals)
  IN IF vals = <<>> THEN {NaN}
     ELSE IF total.k # "fin" THEN {total}
     ELSE IF total.x >= -2
          THEN {Dec((total.m * Pow10(total.x + 2)) \div n, -2)}
          ELSE {Dec(total.m \div (n * Pow10(0 - 2 - total.x)), -2)}

\* round(Series.mean(), 2): NaN entries are skipped (they count as 0 in the
\* sum, in their place, and not in the number of values), NaN when nothing
\* is left; a finite mean is rounded to whole cents
Mean2(t) ==
  LET gross == [i \in 1..Len(t) |-> t[i].gross]
      vals  == SelectSeq(gross, LAMBDA g : g.k # "nan")
      total == FSum([i \in 1..Len(t) |-> IF gross[i].k = "nan" THEN Zero ELSE gross[i]])
      n     == Len(vals)
  IN IF vals = <<>> THEN {NaN}
     ELSE IF total.k # "fin" THEN {total}
     ELSE IF total.x >= -2
          THEN {Dec(c, -2) : c \in RoundOutcomes(total.m * Pow10(total.x + 2), n)}
          ELSE {Dec(c, -2) : c \in RoundOutcomes(total.m, n * Pow10(0 - 2 - total.x))}

\* round(df["gross"].mean(), 2) if not df.empty else 0: the values it can take
AvgGross(t) == IF t = <<>> THEN {Zero} ELSE Mean2(t)

\* int((df["net"] > 30000).sum()) if not df.empty else 0
Above30k(t) ==
  IF t = <<>> THEN 0
  ELSE Cardinality({i \in 1..Len(t) : FGt(t[i].net, Dec(Threshold, 0))})

(***************************************************************************)
(* Responses, the export file                                              *)
(***************************************************************************)
NoFile == [state |-> "none", rows |-> <<>>]

\* the file while a request saves to it: opened for writing, which empties
\* it, and holding as much of the workbook as that request has written so far
PartFile == [state |-> "part", rows |-> <<>>]

\* the file holding the whole workbook of the table t
FullFile(t) == [state |-> "full", rows |-> t]

\* two writers' bytes laid over each other
TornFile == [state |-> "torn", rows |-> <<>>]

NoBody == [state |-> "nobody", rows |-> <<>>]

\* what a handler returns: status, the page's error banner, table and summary
\* figures, or the attached file.  sole and own are observers of an export:
\* sole, whether the request had the file to itself from its open to its send;
\* own, whether the attachment is the workbook of the request's own result.
Response(op, form, status, error, table, avg, above, body, sole, own) ==
  [op |-> op, form |-> form, status |-> status, error |-> error,
   table |-> table, avg |-> avg, above |-> above,
   body |-> body, sole |-> sole, own |-> own]

\* a response that is not a page
Plain(op, form, status, body, sole, own) ==
  Response(op, form, status, "", <<>>, Zero, 0, body, sole, own)

NoResponse == Plain("none", NoForm, 0, NoBody, FALSE, FALSE)

(***************************************************************************)
(* index: POST / and GET /                                                 *)
(***************************************************************************)
\* FirstFault with a missing key reported like an unparsable amount
RECURSIVE FirstFaultNoKeyError(_, _)
FirstFaultNoKeyError(form, i) ==
  IF i > Len(FieldOrder) THEN "none"
  ELSE LET fld == FieldOrder[i]
       IN IF fld \notin DOMAIN form THEN "ValueError"
          ELSE IF i > 2 /\ ~float(form[fld]).ok THEN "ValueError"
          ELSE FirstFaultNoKeyError(form, i + 1)

\* lines 56-63 evaluate the six fields in order; the first missing key raises
\* KeyError (werkzeug's BadRequestKeyError), the first unparsable amount
\* ValueError
RECURSIVE FirstFault(_, _)
FirstFault(form, i) ==
  IF i > Len(FieldOrder) THEN "none"
  ELSE LET fld == FieldOrder[i]
       IN IF fld \notin DOMAIN form THEN "KeyError"
          ELSE IF i > 2 /\ ~float(form[fld]).ok THEN "ValueError"
          ELSE FirstFault(form, i + 1)

\* the dict built by lines 56-63
FormData(form) ==
  [name |-> Strip(form["name"]), role |-> Strip(form["role"]),
   basic |-> float(form["basic"]).val,
   housing |-> float(form["housing"]).val,
   transport |-> float(form["transport"]).val,
   feeding |-> float(form["feeding"]).val]

\* sqlite3 binds a NaN as NULL, which the NOT NULL columns refuse
NotNullViolated(data) ==
  \E fld \in {"basic", "housing", "transport", "feeding"} : data[fld].k = "nan"

\* InsertRow with two columns bound to each other's value
InsertRowSwapped(data, lastId) ==
  [id |-> lastId + 1, name |-> data.name, role |-> data.role, basic |-> data.basic,
   housing |-> data.transport, transport |-> data.housing, feeding |-> data.feeding]

\* InsertRow with an id that does not follow the counter
InsertRowFixedId(data, lastId) ==
  [id |-> 1, name |-> data.name, role |-> data.role, basic |-> data.basic,
   housing |-> data.housing, transport |-> data.transport, feeding |-> data.feeding]

\* the row INSERT stores: the id is one more than the AUTOINCREMENT counter
InsertRow(data, lastId) ==
  [id |-> lastId + 1, name |-> data.name, role |-> data.role, basic |-> data.basic,
   housing |-> data.housing, transport |-> data.transport, feeding |-> data.feeding]

\* POST / with the submission form; cap bounds the table's length
IndexPost(form, cap) ==
  LET fault == FirstFault(form, 1)
  IN /\ UNCHANGED <<file, pc, df, alone>>
     /\ CASE fault = "KeyError" ->
               /\ resp' = Plain("add", form, HttpBadRequest, NoBody, FALSE, FALSE)
               /\ UNCHANGED <<store, seq>>
          [] fault = "ValueError" ->
               /\ \E t \in compute_payroll(store) :
                    \E a \in AvgGross(t) :
                      resp' = Response("add", form, HttpOk, ErrSalary, t, a,
                                       Above30k(t), NoBody, FALSE, FALSE)
               /\ UNCHANGED <<store, seq>>
          [] OTHER ->
               LET data == FormData(form)
               IN IF NotNullViolated(data)
                  THEN /\ resp' = Plain("add", form, HttpServerError, NoBody, FALSE, FALSE)
                       /\ UNCHANGED <<store, seq>>
                  ELSE /\ Len(store) < cap
                       /\ store' = Append(store, InsertRow(data, seq))
                       /\ seq' = seq + 1
                       /\ resp' = Plain("add", form, HttpFound, NoBody, FALSE, FALSE)

\* GET /
IndexGet ==
  /\ \E t \in compute_payroll(store) :
       \E a \in AvgGross(t) :
         resp' = Response("view", NoForm, HttpOk, "", t, a, Above30k(t),
                          NoBody, FALSE, FALSE)
  /\ UNCHANGED <<store, seq, file, pc, df, alone>>

index(forms, cap) == (\E form \in forms : IndexPost(form, cap)) \/ IndexGet

(***************************************************************************)
(* init_db and the state after construction                                *)
(***************************************************************************)
\* payroll.db as the program finds it: created_at is assigned by the
\* database and read by no code path, so a row is its other seven columns;
\* seq is the AUTOINCREMENT counter, the last id handed out
NoDatabase == [exists |-> FALSE, rows |-> <<>>, seq |-> 0]

Database(rows, n) == [exists |-> TRUE, rows |-> rows, seq |-> n]

\* CREATE TABLE IF NOT EXISTS staff: a table that is there keeps its rows and
\* its counter, otherwise an empty one is created
init_db(db) == IF db.exists THEN db ELSE Database(<<>>, 0)

\* the table an earlier run left after one add
KeptRows == <<InsertRow(FormData(FormExample), 0)>>

\* the working directory at start: nothing; the database and the export of
\* an earlier run; that export with the database file removed
Disks ==
  {[db |-> NoDatabase, file |-> NoFile]}
  \cup {[db |-> Database(KeptRows, 1), file |-> FullFile(t)] : t \in compute_payroll(KeptRows)}
  \cup {[db |-> NoDatabase, file |-> FullFile(t)] : t \in compute_payroll(KeptRows)}

\* alone[c] holds while request c saves or has saved and no other request has
\* had the export file open for writing since c opened it
Init ==
  /\ \E d \in Disks :
       /\ store = init_db(d.db).rows
       /\ seq = init_db(d.db).seq
       /\ file = d.file
  /\ pc = [c \in Clients |-> "idle"]
  /\ df = [c \in Clients |-> <<>>]
  /\ alone = [c \in Clients |-> FALSE]
  /\ resp = NoResponse

(***************************************************************************)
(* export: GET /export, split where it touches the table and the file      *)
(***************************************************************************)
\* another request is between its open and the end of its write
OtherSaving(c) == \E o \in Clients \ {c} : pc[o] = "opened"

\* ExportCompute without the test for an empty table
ExportComputeNoEmptyTest(c) ==
  /\ pc[c] = "idle"
  /\ \E t \in compute_payroll(store) :
       /\ df' = [df EXCEPT ![c] = t]
       /\ pc' = [pc EXCEPT ![c] = "computed"]
       /\ UNCHANGED resp
  /\ UNCHANGED <<store, seq, file, alone>>

\* df = compute_payroll(); if df.empty: return "No data to export", 400
ExportCompute(c) ==
  /\ pc[c] = "idle"
  /\ \E t \in compute_payroll(store) :
       IF t = <<>>
       THEN /\ resp' = Plain("export", NoForm, HttpBadRequest, NoBody, FALSE, FALSE)
            /\ UNCHANGED <<pc, df>>
       ELSE /\ df' = [df EXCEPT ![c] = t]
            /\ pc' = [pc EXCEPT ![c] = "computed"]
            /\ UNCHANGED resp
  /\ UNCHANGED <<store, seq, file, alone>>

\* df.to_excel(EXPORT_FILE) opens the path for writing, which truncates it;
\* from here to the end of ExportWrite the workbook goes out in many write
\* calls, and a reader in between finds PartFile
ExportOpen(c) ==
  /\ pc[c] = "computed"
  /\ file' = PartFile
  /\ alone' = [d \in Clients |-> d = c /\ ~OtherSaving(c)]
  /\ pc' = [pc EXCEPT ![c] = "opened"]
  /\ UNCHANGED <<store, seq, df, resp>>

\* ExportWrite that loses the last row of the workbook
ExportWriteDropsLast(c) ==
  /\ pc[c] = "opened"
  /\ \/ file' = FullFile(SubSeq(df[c], 1, Len(df[c]) - 1))
     \/ ~alone[c] /\ file' = TornFile
  /\ alone' = [d \in Clients |-> d = c /\ alone[c]]
  /\ pc' = [pc EXCEPT ![c] = "written"]
  /\ UNCHANGED <<store, seq, df, resp>>

\* the last write call of the save: each request writes at the offsets of its
\* own handle, so the file holds the workbook when no other request had it
\* open for writing meanwhile, and else the workbook or a mix of two
ExportWrite(c) ==
  /\ pc[c] = "opened"
  /\ \/ file' = FullFile(df[c])
     \/ ~alone[c] /\ file' = TornFile
  /\ alone' = [d \in Clients |-> d = c /\ alone[c]]
  /\ pc' = [pc EXCEPT ![c] = "written"]
  /\ UNCHANGED <<store, seq, df, resp>>

\* ExportSend that attaches the request's own workbook, not the path's content
ExportSendOwnCopy(c) ==
  /\ pc[c] = "written"
  /\ resp' = Plain("export", NoForm, HttpOk, FullFile(df[c]), alone[c], TRUE)
  /\ pc' = [pc EXCEPT ![c] = "idle"]
  /\ df' = [df EXCEPT ![c] = <<>>]
  /\ alone' = [alone EXCEPT ![c] = FALSE]
  /\ UNCHANGED <<store, seq, file>>

\* send_file(EXPORT_FILE) opens the path and the server reads it when it
\* streams the response, after export has returned: this step is the end of
\* that read.  It yields what the path holds then, or a mix when another
\* request has had the file open for writing since this one opened it.
ExportSend(c) ==
  /\ pc[c] = "written"
  /\ \E b \in {file} \cup (IF alone[c] THEN {} ELSE {TornFile}) :
       resp' = Plain("export", NoForm, HttpOk, b, alone[c], b = FullFile(df[c]))
  /\ pc' = [pc EXCEPT ![c] = "idle"]
  /\ df' = [df EXCEPT ![c] = <<>>]
  /\ alone' = [alone EXCEPT ![c] = FALSE]
  /\ UNCHANGED <<store, seq, file>>

export(c) == ExportCompute(c) \/ ExportOpen(c) \/ ExportWrite(c) \/ ExportSend(c)

(***************************************************************************)
(* Specifications                                                          *)
(***************************************************************************)
\* the whole application: the index route and two overlapping export requests
Next == index(FormsApp, MaxStaffApp) \/ \E c \in Clients : export(c)

Spec == Init /\ [][Next]_vars

\* the index route alone, over the wide set of submissions
NextIndex == index(Forms, MaxStaff)

SpecIndex == Init /\ [][NextIndex]_vars

(***************************************************************************)
(* Vocabulary of the properties                                            *)
(***************************************************************************)
AllFields == {"name", "role", "basic", "housing", "transport", "feeding"}

Amounts == {"basic", "housing", "transport", "feeding"}

\* a submission the specification calls valid: six fields, a name and a role
\* that are not blank, four amounts that are finite non-negative numbers
ValidForm(form) ==
  /\ DOMAIN form = AllFields
  /\ Strip(form["name"]) # <<>>
  /\ Strip(form["role"]) # <<>>
  /\ \A a \in Amounts :
       LET p == float(form[a]) IN p.ok /\ p.val.k = "fin" /\ p.val.m >= 0

\* the position in FieldOrder of the first field the request lacks, 7 if none
FirstMissing(form) ==
  LET M == {i \in 1..6 : FieldOrder[i] \notin DOMAIN form}
  IN IF M = {} THEN 7 ELSE CHOOSE i \in M : \A j \in M : i <= j

\* the position of the first amount that is present and not numeric, 7 if none
FirstNonNumeric(form) ==
  LET B == {i \in 3..6 : FieldOrder[i] \in DOMAIN form /\ ~float(form[FieldOrder[i]]).ok}
  IN IF B = {} THEN 7 ELSE CHOOSE i \in B : \A j \in B : i <= j

\* the store is the old one with exactly one row appended
OneMore(old, new) == Len(new) = Len(old) + 1 /\ SubSeq(new, 1, Len(old)) = old

\* every stored record is one the specification admits
WellFormed(st) ==
  \A i \in 1..Len(st) :
    /\ st[i].name # <<>>
    /\ st[i].role # <<>>
    /\ \A a \in Amounts : st[i][a].k = "fin" /\ st[i][a].m >= 0

\* the response shows a payroll table computed from the current store
ShowsTable == resp.op = "view" \/ (resp.op = "add" /\ resp.status = HttpOk)

\* the row of the store a payroll line was derived from
RowOf(line) == CHOOSE r \in {store[i] : i \in 1..Len(store)} : r.id = line.id

\* the whole amount n
Money(n) == Dec(n, 0)

\* n times the finite value a
Times(a, n) == Dec(a.m * n, a.x)

\* the sum of the finite gross values of the lines of t
GrossTotal(t) ==
  FSum(SelectSeq([i \in 1..Len(t) |-> t[i].gross], LAMBDA g : g.k = "fin"))

\* the whole part of the finite value a, rounded down
Whole(a) == IF a.x >= 0 THEN a.m * Pow10(a.x) ELSE a.m \div Pow10(0 - a.x)

\* the number of lines of t whose net is strictly above the threshold
AboveCount(t) ==
  Cardinality({j \in 1..Len(t) :
                 \/ /\ t[j].net.k = "fin"
                    /\ \/ Whole(t[j].net) > Threshold
                       \/ Whole(t[j].net) = Threshold /\ t[j].net.x < 0
                 \/ t[j].net = PosInf})

(***************************************************************************)
(* C1  A successful add of a valid submission leaves exactly one more      *)
(* record; its name and role are the submitted texts with surrounding      *)
(* whitespace removed, its amounts the submitted numbers, and its id is    *)
(* the id of no record already stored.                                     *)
(***************************************************************************)
C1_AddStoresTrimmedInput ==
  [][(resp'.op = "add" /\ ValidForm(resp'.form)) =>
       /\ resp'.status = HttpFound
       /\ OneMore(store, store')
       /\ LET r == store'[Len(store')]
              f == resp'.form
          IN /\ r.name = Strip(f["name"])
             /\ r.role = Strip(f["role"])
             /\ \A a \in Amounts : r[a] = float(f[a]).val
             /\ \A i \in 1..Len(store) : store[i].id # r.id]_vars

\* C1 as stated: the stored name and role equal the submitted texts
C1_AddStoresInputVerbatim ==
  [][(resp'.op = "add" /\ ValidForm(resp'.form)) =>
       /\ resp'.status = HttpFound
       /\ OneMore(store, store')
       /\ LET r == store'[Len(store')]
              f == resp'.form
          IN /\ r.name = f["name"]
             /\ r.role = f["role"]
             /\ \A a \in Amounts : r[a] = float(f[a]).val
             /\ \A i \in 1..Len(store) : store[i].id # r.id]_vars

\* a name inside whitespace was added to a store that already held a record
C1_Witness ==
  /\ resp.op = "add"
  /\ resp.status = HttpFound
  /\ ValidForm(resp.form)
  /\ resp.form["name"] # Strip(resp.form["name"])
  /\ Len(store) >= 2
  /\ store[Len(store)].name = Strip(resp.form["name"])

(***************************************************************************)
(* C2  An add whose first offending field, in the order name, role, basic, *)
(* housing, transport, feeding, is an amount that is not numeric renders   *)
(* the page with the form error; one whose first offending field is a      *)
(* missing field is answered 400 with no page; either way the store is     *)
(* left as it was.                                                         *)
(***************************************************************************)
C2_RejectedAddLeavesStore ==
  [][resp'.op = "add" =>
       LET f == resp'.form
       IN /\ FirstNonNumeric(f) < FirstMissing(f) =>
               /\ resp'.status = HttpOk
               /\ resp'.error = ErrSalary
               /\ Len(resp'.table) = Len(store)
               /\ \A i \in 1..Len(store) :
                    \E j \in 1..Len(store) : resp'.table[j] = ComputeLine(store[i])
               /\ store' = store
          /\ FirstMissing(f) < FirstNonNumeric(f) =>
               /\ resp'.status = HttpBadRequest
               /\ resp'.error = ""
               /\ resp'.table = <<>>
               /\ store' = store]_vars

\* C2 as stated: a missing field or a non-numeric amount gives the form error
C2_MissingOrNonNumericIsFormError ==
  [][(resp'.op = "add"
        /\ (FirstMissing(resp'.form) < 7 \/ FirstNonNumeric(resp'.form) < 7)) =>
       /\ resp'.status = HttpOk
       /\ resp'.error = ErrSalary
       /\ store' = store]_vars

\* basic = "abc" was refused with the form error over a store holding records
C2_Witness ==
  /\ resp.op = "add"
  /\ resp.form = FormAbc
  /\ resp.status = HttpOk
  /\ resp.error = ErrSalary
  /\ Len(store) >= 1
  /\ Len(resp.table) = Len(store)

(***************************************************************************)
(* C3  Every stored record has a name and a role that are not empty and    *)
(* four amounts that are not negative.                                     *)
(***************************************************************************)
C3_StoredRecordsValid ==
  \A i \in 1..Len(store) :
    /\ store[i].name # <<>>
    /\ store[i].role # <<>>
    /\ \A a \in Amounts : FGe(store[i][a], Zero)

(***************************************************************************)
(* C4  The payroll table is a permutation of the stored records, net never *)
(* increases from a line to the next, and records of equal net keep their  *)
(* insertion order.  (Stated for the views of a store whose records are    *)
(* all well formed, so that it does not rest on what C3 refutes.)          *)
(***************************************************************************)
C4_SortedStable ==
  (resp.op = "view" /\ WellFormed(store)) =>
    LET t == resp.table
    IN /\ Len(t) = Len(store)
       /\ \A i \in 1..Len(store) : \E j \in 1..Len(t) : t[j].id = store[i].id
       /\ \A j \in 1..Len(t) - 1 : FGe(t[j].net, t[j + 1].net)
       /\ \A i, j \in 1..Len(t) : (i < j /\ t[i].net = t[j].net) => t[i].id < t[j].id

(***************************************************************************)
(* C5  Every payroll line carries its record's fields unchanged, with      *)
(* gross = basic + housing + transport + feeding, tax = 10% of gross,      *)
(* pension = 8% of gross and net = gross - tax - pension; 20000, 5000,     *)
(* 3000, 2000 give 30000, 3000, 2400, 24600.  (With an infinite amount     *)
(* tax and pension are that infinity and net, their difference, is NaN.)   *)
(***************************************************************************)
C5_PayrollFormulas ==
  ShowsTable =>
    \A j \in 1..Len(resp.table) :
      LET l == resp.table[j]
          r == RowOf(l)
          finite == \A a \in Amounts : r[a].k = "fin"
          x0 == Min(Min(r.basic.x, r.housing.x), Min(r.transport.x, r.feeding.x))
      IN /\ \E i \in 1..Len(store) : store[i].id = l.id
         /\ l.name = r.name /\ l.role = r.role
         /\ \A a \in Amounts : l[a] = r[a]
         /\ finite =>
              /\ l.gross.k = "fin" /\ l.tax.k = "fin"
              /\ l.pension.k = "fin" /\ l.net.k = "fin"
              /\ Scaled(l.gross, x0) = Scaled(r.basic, x0) + Scaled(r.housing, x0)
                                         + Scaled(r.transport, x0) + Scaled(r.feeding, x0)
              /\ Times(l.tax, 10) = l.gross
              /\ Times(l.pension, 25) = Times(l.gross, 2)
              /\ FAdd(FAdd(l.net, l.tax), l.pension) = l.gross
         /\ ~finite => (l.tax = l.gross /\ l.pension = l.gross /\ l.net = NaN)
         /\ (r.basic = Money(20000) /\ r.housing = Money(5000)
               /\ r.transport = Money(3000) /\ r.feeding = Money(2000)) =>
              /\ l.gross = Money(30000)
              /\ l.tax = Money(3000)
              /\ l.pension = Money(2400)
              /\ l.net = Money(24600)

\* the worked example is on the page, next to a line whose amounts are not
\* whole cents
C5_Witness ==
  /\ resp.op = "view"
  /\ Len(resp.table) >= 2
  /\ \E j \in 1..Len(resp.table) :
       /\ resp.table[j].basic = Money(20000)
       /\ resp.table[j].feeding = Money(2000)
       /\ resp.table[j].net = Money(24600)
  /\ \E j \in 1..Len(resp.table) :
       /\ resp.table[j].gross = Fin(100007, -3)
       /\ resp.table[j].pension = Fin(800056, -5)

(***************************************************************************)
(* C9  The page's count is the number of lines whose net is strictly above *)
(* 30000, and its average gross is the mean of gross over the lines whose  *)
(* gross is a number, rounded to two decimals (NaN when no line has one);  *)
(* on an empty store the table is empty and both figures are 0.            *)
(***************************************************************************)
C9_SummaryRounded ==
  ShowsTable =>
    LET t == resp.table
        G == {j \in 1..Len(t) : t[j].gross.k # "nan"}
        m == Cardinality(G)
        total == GrossTotal(t)
        x0 == Min(-2, total.x)
        diff == Scaled(resp.avg, x0) * m - Scaled(total, x0)
    IN /\ Len(t) = Len(store)
       /\ resp.above = AboveCount(t)
       /\ store = <<>> => (t = <<>> /\ resp.avg = Zero /\ resp.above = 0)
       /\ (store # <<>> /\ G = {}) => resp.avg = NaN
       /\ (G # {} /\ \E j \in G : t[j].gross.k = "inf") =>
            resp.avg = (IF \E j \in G : t[j].gross = PosInf
                        THEN (IF \E j \in G : t[j].gross = NegInf THEN NaN ELSE PosInf)
                        ELSE NegInf)
       /\ (G # {} /\ \A j \in G : t[j].gross.k = "fin") =>
            /\ resp.avg.k = "fin"
            /\ resp.avg.x >= -2
            /\ 2 * diff <= Pow10(0 - 2 - x0) * m
            /\ 2 * diff >= 0 - Pow10(0 - 2 - x0) * m

\* C9 as stated, for the views of a store whose records are all well formed:
\* the average is the arithmetic mean of gross over all lines
C9_SummaryExactMean ==
  (resp.op = "view" /\ WellFormed(store)) =>
    LET t == resp.table
        n == Len(t)
    IN /\ resp.above = AboveCount(t)
       /\ store = <<>> => (t = <<>> /\ resp.avg = Zero /\ resp.above = 0)
       /\ n > 0 => (resp.avg.k = "fin" /\ Times(resp.avg, n) = GrossTotal(t))

\* three lines whose mean is not a whole number of cents, one of them above
\* the threshold
C9_Witness ==
  /\ resp.op = "view"
  /\ Len(resp.table) = 3
  /\ \A j \in 1..3 : resp.table[j].gross.k = "fin"
  /\ resp.avg.k = "fin"
  /\ Times(resp.avg, 3) # GrossTotal(resp.table)
  /\ resp.above = 1

(***************************************************************************)
(* C6  The store is append-only: every step keeps the records it held,     *)
(* field for field and in place; ids are pairwise distinct and increase in *)
(* insertion order; only a successful add changes the record set.          *)
(***************************************************************************)
C6_AppendOnly ==
  [][/\ Len(store') >= Len(store)
     /\ SubSeq(store', 1, Len(store)) = store
     /\ \A i, j \in 1..Len(store') : i < j => store'[i].id < store'[j].id
     /\ store' # store =>
          /\ OneMore(store, store')
          /\ resp'.op = "add"
          /\ resp'.status = HttpFound
          /\ UNCHANGED <<file, pc, df>>]_vars

\* a full store that a failed add, and before it an export, left in place
C6_Witness ==
  /\ Len(store) = MaxStaffApp
  /\ store[1].id = 1
  /\ store[Len(store)].id = Len(store)
  /\ file.state = "full"
  /\ Len(file.rows) = MaxStaffApp
  /\ resp.op = "add"
  /\ resp.status = HttpOk
  /\ resp.error = ErrSalary

(***************************************************************************)
(* C7  An export request on a non-empty store, with no other export        *)
(* request having the export file open for writing at any moment between   *)
(* its own opening of the file and the reading of the file for its         *)
(* response, returns a file with one row per record of the store it read,  *)
(* rows and order equal to its own compute_payroll result.                 *)
(***************************************************************************)
Sends(c) == pc[c] = "written" /\ pc'[c] = "idle"

C7_ExportAloneReturnsOwn ==
  [][\A c \in Clients :
       (Sends(c) /\ alone[c]) =>
         /\ resp'.op = "export"
         /\ resp'.status = HttpOk
         /\ resp'.body = FullFile(df[c])
         /\ Len(df[c]) >= 1
         /\ Len(df[c]) <= Len(store)
         /\ df[c] \in compute_payroll(SubSeq(store, 1, Len(df[c])))]_vars

\* C7 as stated: every export on a non-empty store returns its own result
C7_ExportReturnsOwn ==
  [][\A c \in Clients :
       Sends(c) =>
         /\ resp'.op = "export"
         /\ resp'.status = HttpOk
         /\ resp'.body = FullFile(df[c])
         /\ Len(df[c]) >= 1
         /\ Len(df[c]) <= Len(store)
         /\ df[c] \in compute_payroll(SubSeq(store, 1, Len(df[c])))]_vars

\* an undisturbed export returned a workbook of two rows
C7_Witness ==
  /\ resp.op = "export"
  /\ resp.status = HttpOk
  /\ resp.sole
  /\ resp.own
  /\ resp.body.state = "full"
  /\ Len(resp.body.rows) = 2

(***************************************************************************)
(* C8  An export request on an empty store is answered 400 with no file    *)
(* attached; it does not go on to write, and the export file and the store *)
(* stay as they were.                                                      *)
(***************************************************************************)
C8_EmptyExportRefused ==
  [][store = <<>> =>
       /\ \A c \in Clients : pc[c] = "idle" /\ pc'[c] = "idle"
       /\ file' = file
       /\ resp'.op = "export" =>
            /\ resp'.status = HttpBadRequest
            /\ resp'.body = NoBody
            /\ store' = store]_vars

\* the refusal, with the store still empty and the export file of an earlier
\* run still whole on disk
C8_Witness ==
  /\ store = <<>>
  /\ resp.op = "export"
  /\ resp.status = HttpBadRequest
  /\ file.state = "full"

(***************************************************************************)
(* C10  The export file is one path shared by all requests and nothing     *)
(* orders a request's write and send against the others': a write replaces *)
(* what any request left there (the last writer wins) and a send returns   *)
(* what the path holds when it is read (a mix of two workbooks when        *)
(* another request writes meanwhile), so a request can return the content  *)
(* another request wrote, different from its own result.                   *)
(***************************************************************************)
Writes(c) == pc[c] = "opened" /\ pc'[c] = "written"

C10_LastWriterWins ==
  [][\A c \in Clients :
       /\ Writes(c) =>
            /\ file' \in {FullFile(df[c]), TornFile}
            /\ alone[c] => file' = FullFile(df[c])
       /\ Sends(c) =>
            /\ resp'.op = "export"
            /\ resp'.body \in {file, TornFile}
            /\ alone[c] => resp'.body = file
       /\ (pc[c] = "computed" /\ pc'[c] = "opened") => file' = PartFile]_vars

\* a request returned a whole workbook that is not its own: the other
\* request read the store after an add and wrote last
C10_Witness ==
  /\ resp.op = "export"
  /\ resp.status = HttpOk
  /\ ~resp.sole
  /\ ~resp.own
  /\ resp.body.state = "full"
  /\ Len(resp.body.rows) = 2
  /\ resp.body.rows[1].net # resp.body.rows[2].net
  /\ Len(store) = 2

====
